---- MODULE Spec2Model ----
(***************************************************************************)
(* A model of the Berlin legal-document pipeline: the document store and   *)
(* its per-call transactions (src/scraper/storage.py,                      *)
(* src/database/connection.py), the rate-limited fetcher and the crawl     *)
(* (src/scraper/scraper.py), the text chunker                              *)
(* (src/processing/chunker.py) and the chunk store with the script that    *)
(* fills it (src/processing/storage.py, scripts/process_documents.py).     *)
(*                                                                         *)
(* Six specifications share the module: SpecStore (the store), SpecFetch   *)
(* (a script's calls on a scraper), SpecCrawl (the crawl), SpecChunk (the  *)
(* chunker, a call being one step), SpecLoop (the chunker, a loop pass     *)
(* being one step) and SpecProcess (sessions, the chunk store and the runs *)
(* of process_documents.py).  Each leaves the other components' variables  *)
(* at their initial values.                                                *)
(***************************************************************************)
EXTENDS Integers, Sequences, FiniteSets, TLC

VARIABLES
    documents,   \* table app.documents: its rows, in insertion order
    nextId,      \* the next value of the documents.id sequence
    scanOrder,   \* the order in which the database reads the table
    lastSave,    \* the current or last DocumentStorage call and its outcome
    scraper,     \* the GesetzeScraper's configuration
    stats,       \* GesetzeScraper.stats
    lastGet,     \* the last get_page call: the server's answers and the outcome
    crawl,       \* the current or last scrape_multiple_letters call
    returns,     \* how many get_page calls of a script returned what
    report,      \* the mapping the last get_statistics call returned
    chunker,     \* the TextChunker's configuration, once constructed
    chunked,     \* the last chunking call: its text and what it returned
    loop,        \* a chunking call in progress, one loop pass per step
    chunkRows,   \* table app.chunks: its rows, in insertion order
    runs,        \* the runs of process_documents.py: where each of them is
    lastChunks,  \* the last save_chunks call and its outcome
    session,     \* the last use of db.session_scope() and how it went
    interleaved  \* whether a run has begun while another was in its loop

storeVars == <<documents, nextId, scanOrder, lastSave>>
fetchVars == <<scraper, stats, lastGet, crawl, returns, report>>
chunkVars == <<chunker, chunked, loop>>
procVars == <<chunkRows, runs, lastChunks, session, interleaved>>

vars == <<documents, nextId, scanOrder, lastSave, scraper, stats, lastGet,
          crawl, returns, report, chunker, chunked, loop, chunkRows, runs,
          lastChunks, session, interleaved>>

----------------------------------------------------------------------------
(* Bounds *)

MaxBatch == 2    \* longest list handed to save_documents_batch
MaxId == 2       \* calls start only while the id sequence is at most this
MaxRetries == 3  \* largest max_retries of a scraper that is called directly
MaxCalls == 2    \* direct get_page calls on one scraper
MaxLinks == 2    \* most links on one index page
MaxLen == 6      \* longest text handed to the chunker, in characters
MaxChunkSize == 2  \* largest parameter a TextChunker is constructed with

----------------------------------------------------------------------------
(* Values *)

\* Python's Optional: None is the empty tuple, a value x is <<x>>.
None == <<>>
Some(x) == <<x>>

\* `if result:` on an Optional[int]: None and 0 are false.
Truthy(r) == r # None /\ r[1] # 0

Min(a, b) == IF a < b THEN a ELSE b

Urls == {"u1", "u2"}
Contents == {"c1", "c2"}

\* hashlib.sha256(content).hexdigest(): a function of the content alone,
\* taken to be free of collisions on the contents of the model.
_calculate_hash(content) == <<"sha256", content>>

\* The title a page carries: extracted from the same response as the content.
TitleOf(content) == <<"title", content>>

\* The dictionaries the callers hand to save_document: the scraper's
\* scrape_document and create_sample_documents both set content_hash to the
\* digest of content.
RawDocument(u, c) ==
    [title |-> TitleOf(c), url |-> u, content |-> c,
     content_hash |-> _calculate_hash(c)]

DocInputs == {RawDocument(u, c) : u \in Urls, c \in Contents}

\* Where, if anywhere, the database raises during one save_document call.
FailPoints == {"none", "query", "flush", "commit"}

\* A query without ORDER BY reads the table in an order the database fixes.
ScanOrders == {"heap", "reverse"}

----------------------------------------------------------------------------
(* The document store *)

\* Mutant of Document: the row's content_hash is the digest of the url.
Document_hashes_url(id, d) ==
    [id |-> id, title |-> d.title, url |-> d.url, content |-> d.content,
     content_hash |-> _calculate_hash(d.url), processed |-> FALSE,
     embedding_generated |-> FALSE]

\* A new row of app.documents.
Document(id, d) ==
    [id |-> id, title |-> d.title, url |-> d.url, content |-> d.content,
     content_hash |-> d.content_hash, processed |-> FALSE,
     embedding_generated |-> FALSE]

\* Mutant of Matches: documents are identified by their url alone.
Matches_url_only(row, d) == row.url = d.url

\* The filter (Document.url == url) | (Document.content_hash == content_hash).
Matches(row, d) == row.url = d.url \/ row.content_hash = d.content_hash

MatchingRows(docs, d) == {i \in 1..Len(docs) : Matches(docs[i], d)}

\* url and content_hash are declared unique=True: the INSERT of a row that
\* shares either with a stored row raises IntegrityError.
IntegrityError(docs, row) == \E i \in 1..Len(docs) : Matches(docs[i], row)

\* Query.first(): LIMIT 1 without ORDER BY, the first matching row in the
\* database's scan order (None when no row matches).
first(db, d) ==
    LET m == MatchingRows(db.documents, d)
    IN  IF m = {} THEN None
        ELSE IF db.scanOrder = "heap"
        THEN Some(db.documents[CHOOSE i \in m : \A j \in m : i <= j])
        ELSE Some(db.documents[CHOOSE i \in m : \A j \in m : i >= j])

\* Mutant of save_document: a document that is already stored overwrites the
\* stored row with its own fields.
save_document_overwrites(db, d, fail) ==
    LET m == {i \in 1..Len(db.documents) :
                \/ db.documents[i].url = d.url
                \/ db.documents[i].content_hash = d.content_hash}
    IN  IF fail = "query"
        THEN [db |-> db, result |-> None, session |-> "rolled_back"]
        ELSE IF m # {}
        THEN LET i == CHOOSE i \in m : \A j \in m : i <= j
             IN  IF fail = "commit"
                 THEN [db |-> db, result |-> None, session |-> "rolled_back"]
                 ELSE [db |-> [db EXCEPT
                                 !.documents[i].title = d.title,
                                 !.documents[i].content = d.content],
                       result |-> Some(db.documents[i].id),
                       session |-> "committed"]
        ELSE IF fail \in {"flush", "commit"}
        THEN [db |-> [db EXCEPT !.nextId = @ + 1], result |-> None,
              session |-> "rolled_back"]
        ELSE [db |-> [db EXCEPT
                        !.documents = Append(@,
                            [id |-> db.nextId, title |-> d.title,
                             url |-> d.url, content |-> d.content,
                             content_hash |-> d.content_hash,
                             processed |-> FALSE,
                             embedding_generated |-> FALSE]),
                        !.nextId = @ + 1],
              result |-> Some(db.nextId), session |-> "committed"]

\* DocumentStorage.save_document inside db.session_scope().  The result holds
\* the database after the call, the value returned, and how the session ended.
\* An exception anywhere in the block or in the commit is rolled back by
\* session_scope, re-raised, caught by save_document and turned into None.  A
\* value drawn from the id sequence by a failed INSERT is not given back.
save_document(db, d, fail) ==
    LET existing == first(db, d)
    IN  IF fail = "query"
        THEN [db |-> db, result |-> None, session |-> "rolled_back"]
        ELSE IF existing # None
        THEN IF fail = "commit"
             THEN [db |-> db, result |-> None, session |-> "rolled_back"]
             ELSE [db |-> db, result |-> Some(existing[1].id),
                   session |-> "committed"]
        ELSE IF \/ fail \in {"flush", "commit"}
                \/ IntegrityError(db.documents, Document(db.nextId, d))
        THEN [db |-> [db EXCEPT !.nextId = @ + 1], result |-> None,
              session |-> "rolled_back"]
        ELSE [db |-> [db EXCEPT
                        !.documents = Append(@, Document(db.nextId, d)),
                        !.nextId = @ + 1],
              result |-> Some(db.nextId), session |-> "committed"]

\* Mutant of CountResult: a failed save is not counted.
CountResult_drops_errors(counts, result) ==
    IF result # None /\ result[1] # 0
    THEN [counts EXCEPT !.saved = @ + 1]
    ELSE counts

\* The counting of save_documents_batch's loop body for one result.
CountResult(counts, result) ==
    IF Truthy(result)
    THEN [counts EXCEPT !.saved = @ + 1]
    ELSE [counts EXCEPT !.errors = @ + 1]

\* stats = {'saved': 0, 'duplicates': 0, 'errors': 0}
NewBatchStats == [saved |-> 0, duplicates |-> 0, errors |-> 0]

\* Mutant of batch_iteration: the loop is left at the first failed save.
batch_iteration_stops_on_error(db, call, fail) ==
    LET i == Len(call.results) + 1
        r == save_document(db, call.batch[i], fail)
    IN  [db |-> r.db,
         call |-> [call EXCEPT
                     !.fails = Append(@, fail),
                     !.results = Append(@, r.result),
                     !.sessions = Append(@, r.session),
                     !.tables = Append(@, r.db.documents),
                     !.stats = CountResult(@, r.result),
                     !.returned = (i = Len(call.batch) \/ r.result = None)]]

\* One iteration of save_documents_batch's loop: the call of save_document on
\* the next document and the counting of its result.  call is the record of
\* the running batch; the loop goes on to the next document whatever the
\* result.
batch_iteration(db, call, fail) ==
    LET i == Len(call.results) + 1
        r == save_document(db, call.batch[i], fail)
    IN  [db |-> r.db,
         call |-> [call EXCEPT
                     !.fails = Append(@, fail),
                     !.results = Append(@, r.result),
                     !.sessions = Append(@, r.session),
                     !.tables = Append(@, r.db.documents),
                     !.stats = CountResult(@, r.result),
                     !.returned = (i = Len(call.batch))]]

\* The record of a call: its arguments, the table before it, and for each
\* document handled so far where the database raised, the value save_document
\* returned, how its session ended and the table after it; returned says that
\* the call is over.
Call(op, batch, before) ==
    [op |-> op, batch |-> batch, before |-> before, fails |-> <<>>,
     results |-> <<>>, sessions |-> <<>>, tables |-> <<>>,
     stats |-> NewBatchStats, returned |-> (batch = <<>>)]

Database == [documents |-> documents, nextId |-> nextId,
             scanOrder |-> scanOrder]

SeqsUpTo(S, n) == UNION {[1..k -> S] : k \in 0..n}

StoreIdle ==
    /\ documents = <<>>
    /\ nextId = 1
    /\ scanOrder = "heap"
    /\ lastSave = Call("none", <<>>, <<>>)

\* The processes that run process_documents.py.
Runs == {1, 2}

\* One run of process_documents.py: where it is (pc), the doc_list it read
\* and the index i in it of the document it handles next.
Run(pc, doc_list) == [pc |-> pc, doc_list |-> doc_list, i |-> 1]

NoRun == Run("idle", <<>>)

\* The record of a save_chunks call: its arguments, where the database
\* raised, the tables before and after it, the value returned and whether
\* an exception left the call.
SaveChunksCall(document_id, chunk_list, fail, before, after, result, raised) ==
    [called |-> TRUE, document_id |-> document_id, chunks |-> chunk_list,
     fail |-> fail, before |-> before, after |-> after, result |-> result,
     raised |-> raised]

NoSaveChunks ==
    [called |-> FALSE, document_id |-> 0, chunks |-> <<>>, fail |-> "none",
     before |-> <<>>, after |-> <<>>, result |-> 0, raised |-> FALSE]

\* The record of one use of session_scope: how the block ended, whether
\* the commit raised, the calls made on the session in order, whether the
\* transaction was committed and whether an exception left the with
\* statement.
NoSession ==
    [use |-> "none", body |-> "finishes", commit_raises |-> FALSE,
     calls |-> <<>>, committed |-> FALSE, raised |-> FALSE]

ProcIdle ==
    /\ chunkRows = <<>>
    /\ runs = [r \in Runs |-> NoRun]
    /\ lastChunks = NoSaveChunks
    /\ session = NoSession
    /\ interleaved = FALSE

----------------------------------------------------------------------------
(* The chunker: texts are sequences of characters *)

Whitespace == {" ", "\n"}
Alphabet == {"a", " ", "\n"}
Texts == SeqsUpTo(Alphabet, MaxLen)

\* Mutant of collapse_whitespace: re.sub(r'\s\s', ' ', text), every two
\* whitespace characters become one space.
RECURSIVE collapse_whitespace_pairs(_)
collapse_whitespace_pairs(text) ==
    IF text = <<>> THEN <<>>
    ELSE IF /\ Head(text) \in Whitespace
            /\ Tail(text) # <<>>
            /\ Head(Tail(text)) \in Whitespace
    THEN <<" ">> \o collapse_whitespace_pairs(Tail(Tail(text)))
    ELSE <<Head(text)>> \o collapse_whitespace_pairs(Tail(text))

\* re.sub(r'\s+', ' ', text): every run of whitespace becomes one space.
RECURSIVE collapse_whitespace(_)
collapse_whitespace(text) ==
    IF text = <<>> THEN <<>>
    ELSE IF Head(text) \in Whitespace
    THEN IF Tail(text) # <<>> /\ Head(Tail(text)) \in Whitespace
         THEN collapse_whitespace(Tail(text))
         ELSE <<" ">> \o collapse_whitespace(Tail(text))
    ELSE <<Head(text)>> \o collapse_whitespace(Tail(text))

\* Where the longest match of \n\s*\n that starts at the head of the text
\* ends; 0 when there is none.
BlankLineEnd(text) ==
    LET ends == {j \in 2..Len(text) :
                    /\ text[j] = "\n"
                    /\ \A k \in 2..(j - 1) : text[k] \in Whitespace}
    IN  IF ends = {} THEN 0
        ELSE CHOOSE j \in ends : \A k \in ends : k <= j

\* re.sub(r'\n\s*\n', '\n\n', text)
RECURSIVE collapse_blank_lines(_)
collapse_blank_lines(text) ==
    IF text = <<>> THEN <<>>
    ELSE IF Head(text) = "\n" /\ BlankLineEnd(text) # 0
    THEN <<"\n", "\n">>
             \o collapse_blank_lines(SubSeq(text, BlankLineEnd(text) + 1,
                                            Len(text)))
    ELSE <<Head(text)>> \o collapse_blank_lines(Tail(text))

RECURSIVE lstrip(_)
lstrip(text) ==
    IF text # <<>> /\ Head(text) \in Whitespace THEN lstrip(Tail(text))
    ELSE text

RECURSIVE rstrip(_)
rstrip(text) ==
    IF text # <<>> /\ text[Len(text)] \in Whitespace
    THEN rstrip(SubSeq(text, 1, Len(text) - 1))
    ELSE text

\* str.strip()
strip(text) == rstrip(lstrip(text))

\* str.split(): the maximal runs of characters that are not whitespace.
RECURSIVE split(_)
split(text) ==
    LET t == lstrip(text)
    IN  IF t = <<>> THEN <<>>
        ELSE LET n == CHOOSE n \in 1..Len(t) :
                          /\ \A k \in 1..n : t[k] \notin Whitespace
                          /\ n = Len(t) \/ t[n + 1] \in Whitespace
             IN  <<SubSeq(t, 1, n)>> \o split(SubSeq(t, n + 1, Len(t)))

\* sep.join(parts)
RECURSIVE join(_, _)
join(sep, parts) ==
    IF parts = <<>> THEN <<>>
    ELSE IF Len(parts) = 1 THEN Head(parts)
    ELSE Head(parts) \o sep \o join(sep, Tail(parts))

\* The number of newlines the text starts with.
RECURSIVE NewlineRun(_)
NewlineRun(text) ==
    IF text # <<>> /\ Head(text) = "\n" THEN 1 + NewlineRun(Tail(text))
    ELSE 0

\* re.split(r'\n\n+', text), para being the piece read so far.
RECURSIVE re_split(_, _)
re_split(text, para) ==
    IF text = <<>> THEN <<para>>
    ELSE IF NewlineRun(text) >= 2
    THEN <<para>> \o re_split(SubSeq(text, NewlineRun(text) + 1, Len(text)),
                              <<>>)
    ELSE re_split(Tail(text), Append(para, Head(text)))

\* TextChunker(chunk_size, chunk_overlap, min_chunk_size): the constructor
\* stores its arguments.
TextChunker(chunk_size, chunk_overlap, min_chunk_size) ==
    [chunk_size |-> chunk_size, chunk_overlap |-> chunk_overlap,
     min_chunk_size |-> min_chunk_size]

TextChunk(text, chunk_index, metadata) ==
    [text |-> text, chunk_index |-> chunk_index, metadata |-> metadata]

\* Mutant of clean_text: the final strip() is left out.
clean_text_unstripped(self, text) ==
    collapse_blank_lines(collapse_whitespace(text))

clean_text(self, text) ==
    strip(collapse_blank_lines(collapse_whitespace(text)))

\* words[start:end]: a negative index counts from the end of the list, and
\* both indices are clamped to the list.
Slice(words, start, end) ==
    LET Clamp(i) == IF i < 0 THEN (IF i + Len(words) < 0 THEN 0
                                   ELSE i + Len(words))
                    ELSE Min(i, Len(words))
    IN  SubSeq(words, Clamp(start) + 1, Clamp(end))

\* The while loop of chunk_by_words gone wrong: every window advances by
\* chunk_size, without the overlap.
RECURSIVE window_loop_no_overlap(_, _, _, _, _)
window_loop_no_overlap(self, words, doc_id, start, chunk_index) ==
    IF ~(start < Len(words)) THEN <<>>
    ELSE LET end == start + self.chunk_size
             chunk_words == Slice(words, start, end)
         IN  <<TextChunk(join(<<" ">>, chunk_words), chunk_index,
                         [word_count |-> Len(chunk_words),
                          document_id |-> doc_id,
                          start_position |-> start, end_position |-> end,
                          total_words |-> Len(words)])>>
                 \o window_loop_no_overlap(self, words, doc_id, end,
                                           chunk_index + 1)

\* The while loop of chunk_by_words gone wrong: a chunk's index is the
\* position of its window.
RECURSIVE window_loop_index_is_start(_, _, _, _, _)
window_loop_index_is_start(self, words, doc_id, start, chunk_index) ==
    IF ~(start < Len(words)) THEN <<>>
    ELSE LET end == start + self.chunk_size
             chunk_words == Slice(words, start, end)
         IN  <<TextChunk(join(<<" ">>, chunk_words), start,
                         [word_count |-> Len(chunk_words),
                          document_id |-> doc_id,
                          start_position |-> start, end_position |-> end,
                          total_words |-> Len(words)])>>
                 \o window_loop_index_is_start(self, words, doc_id,
                                               end - self.chunk_overlap,
                                               chunk_index + 1)

\* The while loop of chunk_by_words gone wrong: a window shorter than
\* min_chunk_size is skipped even when it is the last one.
RECURSIVE window_loop_skips_last(_, _, _, _, _)
window_loop_skips_last(self, words, doc_id, start, chunk_index) ==
    IF ~(start < Len(words)) THEN <<>>
    ELSE LET end == start + self.chunk_size
             chunk_words == Slice(words, start, end)
         IN  IF Len(chunk_words) < self.min_chunk_size
             THEN window_loop_skips_last(self, words, doc_id,
                                         end - self.chunk_overlap,
                                         chunk_index)
             ELSE <<TextChunk(join(<<" ">>, chunk_words), chunk_index,
                              [word_count |-> Len(chunk_words),
                               document_id |-> doc_id,
                               start_position |-> start,
                               end_position |-> end,
                               total_words |-> Len(words)])>>
                      \o window_loop_skips_last(self, words, doc_id,
                                                end - self.chunk_overlap,
                                                chunk_index + 1)

\* The while loop of chunk_by_words from the given start and chunk_index
\* on: the chunks it appends.  The loop is entered only when each pass
\* moves start forward (see chunk_by_words).
RECURSIVE window_loop(_, _, _, _, _)
window_loop(self, words, doc_id, start, chunk_index) ==
    IF ~(start < Len(words)) THEN <<>>
    ELSE LET end == start + self.chunk_size
             chunk_words == Slice(words, start, end)
             chunk_text == join(<<" ">>, chunk_words)
         IN  IF /\ Len(chunk_words) < self.min_chunk_size
                /\ start + self.chunk_size < Len(words)
             THEN window_loop(self, words, doc_id, end - self.chunk_overlap,
                              chunk_index)
             ELSE <<TextChunk(chunk_text, chunk_index,
                              [word_count |-> Len(chunk_words),
                               document_id |-> doc_id,
                               start_position |-> start,
                               end_position |-> end,
                               total_words |-> Len(words)])>>
                      \o window_loop(self, words, doc_id,
                                     end - self.chunk_overlap,
                                     chunk_index + 1)

\* What a chunking call does: it returns a list of chunks, or its loop
\* never ends.
Returns(chunks) == [returned |-> TRUE, chunks |-> chunks]
NeverReturns == [returned |-> FALSE, chunks |-> <<>>]

\* Mutant of chunk_by_words: a small document goes through the window loop
\* like any other.
chunk_by_words_always_windows(self, text, doc_id) ==
    IF self.chunk_size - self.chunk_overlap <= 0
    THEN NeverReturns
    ELSE Returns(window_loop(self, split(clean_text(self, text)), doc_id,
                             0, 0))

\* With chunk_overlap >= chunk_size no pass of the while loop moves start
\* forward, so `start < len(words)` stays true for ever.
chunk_by_words(self, text, doc_id) ==
    LET cleaned == clean_text(self, text)
        words == split(cleaned)
    IN  IF Len(words) <= self.chunk_size
        THEN Returns(<<TextChunk(cleaned, 0,
                                 [word_count |-> Len(words),
                                  document_id |-> doc_id,
                                  is_complete |-> TRUE])>>)
        ELSE IF self.chunk_size - self.chunk_overlap <= 0
        THEN NeverReturns
        ELSE Returns(window_loop(self, words, doc_id, 0, 0))

\* Mutant of Renumber: the sub-chunks are numbered from chunk_index + 1.
Renumber_from_next(sub_chunks, chunk_index) ==
    [k \in 1..Len(sub_chunks) |->
        [sub_chunks[k] EXCEPT !.chunk_index = chunk_index + k]]

\* `sub_chunk.chunk_index = chunk_index; chunk_index += 1` over sub_chunks
Renumber(sub_chunks, chunk_index) ==
    [k \in 1..Len(sub_chunks) |->
        [sub_chunks[k] EXCEPT !.chunk_index = chunk_index + k - 1]]

\* The chunk that chunk_by_paragraphs makes of the paragraphs gathered.
ParagraphChunk(current_chunk, current_word_count, chunk_index, doc_id) ==
    TextChunk(join(<<"\n", "\n">>, current_chunk), chunk_index,
              [word_count |-> current_word_count, document_id |-> doc_id,
               paragraph_count |-> Len(current_chunk)])

\* The for loop of chunk_by_paragraphs over the paragraphs left, and the
\* `if current_chunk:` after it.
RECURSIVE paragraph_loop(_, _, _, _, _, _, _)
paragraph_loop(self, paras, doc_id, chunks, current_chunk, current_word_count, chunk_index) ==
    IF paras = <<>>
    THEN IF current_chunk # <<>>
         THEN Returns(Append(chunks,
                             ParagraphChunk(current_chunk, current_word_count,
                                            chunk_index, doc_id)))
         ELSE Returns(chunks)
    ELSE
    LET para == Head(paras)
        para_word_count == Len(split(para))
        flushed == IF current_chunk # <<>>
                   THEN Append(chunks,
                               ParagraphChunk(current_chunk,
                                              current_word_count,
                                              chunk_index, doc_id))
                   ELSE chunks
        next_index == IF current_chunk # <<>> THEN chunk_index + 1
                      ELSE chunk_index
    IN  IF para_word_count > self.chunk_size
        THEN LET sub == chunk_by_words(self, para, doc_id)
             IN  IF ~sub.returned THEN NeverReturns
                 ELSE paragraph_loop(self, Tail(paras), doc_id,
                                     flushed \o Renumber(sub.chunks,
                                                         next_index),
                                     <<>>, 0,
                                     next_index + Len(sub.chunks))
        ELSE IF current_word_count + para_word_count <= self.chunk_size
        THEN paragraph_loop(self, Tail(paras), doc_id, chunks,
                            Append(current_chunk, para),
                            current_word_count + para_word_count,
                            chunk_index)
        ELSE paragraph_loop(self, Tail(paras), doc_id, flushed, <<para>>,
                            para_word_count, next_index)

chunk_by_paragraphs(self, text, doc_id) ==
    paragraph_loop(self, re_split(clean_text(self, text), <<>>), doc_id,
                   <<>>, <<>>, 0, 0)

\* TextChunker.chunk_document(text, doc_id, strategy)
chunk_document(self, text, doc_id, strategy) ==
    IF strategy = "paragraphs"
    THEN chunk_by_paragraphs(self, text, doc_id)
    ELSE chunk_by_words(self, text, doc_id)

\* The strategy values of the model: the two the docstring of chunk_document
\* names and one it does not.
Strategies == {"words", "paragraphs", "sentences"}

\* One chunking call and its outcome.
Chunked(op, text, r) ==
    [op |-> op, text |-> text, returned |-> r.returned, chunks |-> r.chunks]

\* One chunk_document call and its outcome.
ChunkedDocument(strategy, text, r) ==
    [op |-> "chunk_document", strategy |-> strategy, text |-> text,
     returned |-> r.returned, chunks |-> r.chunks]

NoChunker == TextChunker(-1, -1, -1)
NoChunks == Chunked("none", <<>>, Returns(<<>>))

\* A chunking call in progress.  pc says where it is: in the for loop of
\* chunk_by_paragraphs ("paragraphs"), in the while loop of chunk_by_words
\* ("window"), or back at its caller ("returned", with the list in result).
\* words, start, chunk_index and chunks are the locals of chunk_by_words,
\* passes the passes its while loop has made; paras holds the paragraphs
\* the for loop has not reached, out, current_chunk, current_word_count
\* and out_index are the locals chunks, current_chunk, current_word_count
\* and chunk_index of chunk_by_paragraphs.
Loop(pc, op) ==
    [pc |-> pc, op |-> op, words |-> <<>>, start |-> 0, chunk_index |-> 0,
     chunks |-> <<>>, passes |-> 0, paras |-> <<>>, out |-> <<>>,
     current_chunk |-> <<>>, current_word_count |-> 0, out_index |-> 0,
     result |-> <<>>]

NoLoop == Loop("idle", "none")

\* `start = end - self.chunk_overlap`, at the end of a pass of the while
\* loop and where it skips a window.
next_start_stalls(self, end) == end - self.chunk_size
next_start(self, end) == end - self.chunk_overlap

\* chunk_by_words up to its while loop, in a call that is at lp.
enter_chunk_by_words(self, lp, text, doc_id) ==
    LET cleaned == clean_text(self, text)
        words == split(cleaned)
    IN  IF Len(words) <= self.chunk_size
        THEN [lp EXCEPT !.pc = "returned",
                        !.result = <<TextChunk(cleaned, 0,
                                        [word_count |-> Len(words),
                                         document_id |-> doc_id,
                                         is_complete |-> TRUE])>>]
        ELSE [lp EXCEPT !.pc = "window", !.words = words, !.start = 0,
                        !.chunk_index = 0, !.chunks = <<>>, !.passes = 0]

\* One evaluation of `while start < len(words)` and, when it holds, one
\* pass of the loop body; when it fails chunk_by_words returns its chunks,
\* to the caller or to the for loop of chunk_by_paragraphs, which renumbers
\* them.
window_pass(self, lp, doc_id) ==
    IF lp.start < Len(lp.words)
    THEN LET end == lp.start + self.chunk_size
             chunk_words == Slice(lp.words, lp.start, end)
         IN  IF /\ Len(chunk_words) < self.min_chunk_size
                /\ lp.start + self.chunk_size < Len(lp.words)
             THEN [lp EXCEPT !.start = next_start(self, end),
                             !.passes = @ + 1]
             ELSE [lp EXCEPT
                     !.chunks = Append(@,
                         TextChunk(join(<<" ">>, chunk_words),
                                   lp.chunk_index,
                                   [word_count |-> Len(chunk_words),
                                    document_id |-> doc_id,
                                    start_position |-> lp.start,
                                    end_position |-> end,
                                    total_words |-> Len(lp.words)])),
                     !.chunk_index = @ + 1,
                     !.start = next_start(self, end),
                     !.passes = @ + 1]
    ELSE IF lp.op = "chunk_by_words"
    THEN [lp EXCEPT !.pc = "returned", !.result = lp.chunks]
    ELSE [lp EXCEPT !.pc = "paragraphs",
                    !.out = @ \o Renumber(lp.chunks, lp.out_index),
                    !.out_index = @ + Len(lp.chunks)]

\* One step of the for loop of chunk_by_paragraphs: the next paragraph, up
\* to the call of chunk_by_words for an oversized one, or, after the last
\* paragraph, the remaining chunk and the return.
paragraph_pass(self, lp, doc_id) ==
    LET flushed == IF lp.current_chunk # <<>>
                   THEN Append(lp.out,
                               ParagraphChunk(lp.current_chunk,
                                              lp.current_word_count,
                                              lp.out_index, doc_id))
                   ELSE lp.out
        next_index == IF lp.current_chunk # <<>> THEN lp.out_index + 1
                      ELSE lp.out_index
    IN  IF lp.paras = <<>>
        THEN [lp EXCEPT !.pc = "returned", !.result = flushed]
        ELSE
        LET para == Head(lp.paras)
            para_word_count == Len(split(para))
        IN  IF para_word_count > self.chunk_size
            THEN enter_chunk_by_words(
                     self,
                     [lp EXCEPT !.paras = Tail(@), !.out = flushed,
                                !.out_index = next_index,
                                !.current_chunk = <<>>,
                                !.current_word_count = 0],
                     para, doc_id)
            ELSE IF lp.current_word_count + para_word_count
                        <= self.chunk_size
            THEN [lp EXCEPT !.paras = Tail(@),
                            !.current_chunk = Append(@, para),
                            !.current_word_count = @ + para_word_count]
            ELSE [lp EXCEPT !.paras = Tail(@), !.out = flushed,
                            !.out_index = next_index,
                            !.current_chunk = <<para>>,
                            !.current_word_count = para_word_count]

ChunkIdle ==
    /\ chunker = NoChunker
    /\ chunked = NoChunks
    /\ loop = NoLoop

----------------------------------------------------------------------------
(* The scraper *)

\* s[:n] for n >= 0.
\* Mutant of Take: the slice keeps one element more.
Take_one_more(s, n) == SubSeq(s, 1, Min(n + 1, Len(s)))

Take(s, n) == SubSeq(s, 1, Min(n, Len(s)))

\* self.stats as __init__ sets it.
NewStats == [pages_fetched |-> 0, documents_found |-> 0, errors |-> 0,
             retries |-> 0]

\* GesetzeScraper(delay_seconds, max_retries).
GesetzeScraper(max_retries, delay_seconds) ==
    [max_retries |-> max_retries, delay_seconds |-> delay_seconds]

Delays == {1, 2}

\* What the server does with the attempts of one get_page call: for each
\* attempt that may be made, whether session.get and raise_for_status pass
\* ("ok") or raise a RequestException ("fail").
Outcomes(self) == [1..(self.max_retries + 1) -> {"ok", "fail"}]

\* Mutant of get_page: the last failure is raised again instead of
\* returning None.
RECURSIVE get_page_reraises(_, _, _, _)
get_page_reraises(self, st, outcomes, retry_count) ==
    IF outcomes[retry_count + 1] = "ok"
    THEN [response |-> Some("response"),
          stats |-> [st EXCEPT !.pages_fetched = @ + 1],
          attempts |-> retry_count + 1,
          sleeps |-> <<self.delay_seconds>>,
          raised |-> None]
    ELSE IF retry_count < self.max_retries
    THEN LET r == get_page_reraises(
                      self,
                      [st EXCEPT !.errors = @ + 1, !.retries = @ + 1],
                      outcomes, retry_count + 1)
         IN  [r EXCEPT !.sleeps =
                  <<(2 ^ retry_count) * self.delay_seconds>> \o @]
    ELSE [response |-> None,
          stats |-> [st EXCEPT !.errors = @ + 1],
          attempts |-> retry_count + 1,
          sleeps |-> <<>>,
          raised |-> Some("RequestException")]

\* Mutant of get_page: the retry test is retry_count <= max_retries.
RECURSIVE get_page_one_more(_, _, _, _)
get_page_one_more(self, st, outcomes, retry_count) ==
    IF retry_count + 1 \in DOMAIN outcomes /\ outcomes[retry_count + 1] = "ok"
    THEN [response |-> Some("response"),
          stats |-> [st EXCEPT !.pages_fetched = @ + 1],
          attempts |-> retry_count + 1,
          sleeps |-> <<self.delay_seconds>>,
          raised |-> None]
    ELSE IF retry_count <= self.max_retries
    THEN LET r == get_page_one_more(
                      self,
                      [st EXCEPT !.errors = @ + 1, !.retries = @ + 1],
                      outcomes, retry_count + 1)
         IN  [r EXCEPT !.sleeps =
                  <<(2 ^ retry_count) * self.delay_seconds>> \o @]
    ELSE [response |-> None,
          stats |-> [st EXCEPT !.errors = @ + 1],
          attempts |-> retry_count + 1,
          sleeps |-> <<>>,
          raised |-> None]

\* Mutant of get_page: errors is counted once per failed call, not once per
\* failed attempt.
RECURSIVE get_page_errors_once(_, _, _, _)
get_page_errors_once(self, st, outcomes, retry_count) ==
    IF retry_count + 1 \in DOMAIN outcomes /\ outcomes[retry_count + 1] = "ok"
    THEN [response |-> Some("response"),
          stats |-> [st EXCEPT !.pages_fetched = @ + 1],
          attempts |-> retry_count + 1,
          sleeps |-> <<self.delay_seconds>>,
          raised |-> None]
    ELSE IF retry_count < self.max_retries
    THEN LET r == get_page_errors_once(
                      self, [st EXCEPT !.retries = @ + 1],
                      outcomes, retry_count + 1)
         IN  [r EXCEPT !.sleeps =
                  <<(2 ^ retry_count) * self.delay_seconds>> \o @]
    ELSE [response |-> None,
          stats |-> [st EXCEPT !.errors = @ + 1],
          attempts |-> retry_count + 1,
          sleeps |-> <<>>,
          raised |-> None]

\* Mutant of get_page: the rate-limit sleep also follows the last failure.
RECURSIVE get_page_waits_after_failure(_, _, _, _)
get_page_waits_after_failure(self, st, outcomes, retry_count) ==
    IF outcomes[retry_count + 1] = "ok"
    THEN [response |-> Some("response"),
          stats |-> [st EXCEPT !.pages_fetched = @ + 1],
          attempts |-> retry_count + 1,
          sleeps |-> <<self.delay_seconds>>,
          raised |-> None]
    ELSE IF retry_count < self.max_retries
    THEN LET r == get_page_waits_after_failure(
                      self,
                      [st EXCEPT !.errors = @ + 1, !.retries = @ + 1],
                      outcomes, retry_count + 1)
         IN  [r EXCEPT !.sleeps =
                  <<(2 ^ retry_count) * self.delay_seconds>> \o @]
    ELSE [response |-> None,
          stats |-> [st EXCEPT !.errors = @ + 1],
          attempts |-> retry_count + 1,
          sleeps |-> <<self.delay_seconds>>,
          raised |-> None]

\* GesetzeScraper.get_page(url, retry_count) on the counters st.  The result
\* holds the value returned (None or a response), the counters after the
\* call, the number of HTTP requests made, the sleeps in order, and the
\* exception that leaves the call (None: it returns).  Every failure of the
\* request is a RequestException and is caught by the except clause.
RECURSIVE get_page(_, _, _, _)
get_page(self, st, outcomes, retry_count) ==
    IF outcomes[retry_count + 1] = "ok"
    THEN [response |-> Some("response"),
          stats |-> [st EXCEPT !.pages_fetched = @ + 1],
          attempts |-> retry_count + 1,
          sleeps |-> <<self.delay_seconds>>,
          raised |-> None]
    ELSE IF retry_count < self.max_retries
    THEN LET r == get_page(self,
                           [st EXCEPT !.errors = @ + 1, !.retries = @ + 1],
                           outcomes, retry_count + 1)
         IN  [r EXCEPT !.sleeps =
                  <<(2 ^ retry_count) * self.delay_seconds>> \o @]
    ELSE [response |-> None,
          stats |-> [st EXCEPT !.errors = @ + 1],
          attempts |-> retry_count + 1,
          sleeps |-> <<>>,
          raised |-> None]

\* The record of a get_page call: the counters before it, the server's
\* answers, and the outcome.
GetRecord(before, outcomes, r) ==
    [called |-> TRUE, before |-> before, outcomes |-> outcomes,
     response |-> r.response, attempts |-> r.attempts, sleeps |-> r.sleeps,
     raised |-> r.raised]

NoGet ==
    [called |-> FALSE, before |-> NewStats, outcomes |-> <<>>,
     response |-> None, attempts |-> 0, sleeps |-> <<>>, raised |-> None]

\* The count of the get_page calls that returned a response and of those
\* that returned None.
NoReturns == [response |-> 0, none |-> 0]

Returned(counts, response) ==
    IF response # None
    THEN [counts EXCEPT !.response = @ + 1]
    ELSE [counts EXCEPT !.none = @ + 1]

\* A number that need not be whole, as the fraction num / den.
Fraction(num, den) == [num |-> num, den |-> den]

\* What get_statistics returns when it hands out the scraper's own mapping.
get_statistics_returns_stats(st) ==
    [stats |-> st,
     returned |-> [object |-> "self.stats", mapping |-> st]]

\* GesetzeScraper.get_statistics(): the counters after the call and the
\* object returned, a new mapping with the entries of self.stats and
\* success_rate = pages_fetched / total * 100, or 0 when total is 0.
get_statistics(st) ==
    LET total == st.pages_fetched + st.errors
        success_rate == IF total > 0
                        THEN Fraction(st.pages_fetched * 100, total)
                        ELSE Fraction(0, 1)
    IN  [stats |-> st,
         returned |->
             [object |-> "new",
              mapping |-> [pages_fetched |-> st.pages_fetched,
                           documents_found |-> st.documents_found,
                           errors |-> st.errors,
                           retries |-> st.retries,
                           success_rate |-> success_rate]]]

NoReport == [object |-> "none", mapping |-> NewStats]

\* The links of an index page: the text of the <a> (its first letter and its
\* length) and its href.
Letters == {"A", "b"}
Hrefs == {"/document/d1", "/document/d2", "/bsbe/browse"}
Links ==
    [initial : {"a", "B"}, length : {4},
     href : {"/document/d1", "/document/d2"}]
    \cup {[initial |-> "a", length |-> 3, href |-> "/document/d1"],
          [initial |-> "a", length |-> 4, href |-> "/bsbe/browse"]}

\* LETTERS_TO_SCRAPE = ['A', 'B'] in run_scraper.py: two letters.
NumLetters == 2

\* The content the site serves at a document's url.
Served(url) == IF url = "/document/d1" THEN "c1" ELSE "c2"

\* str.upper() on a letter.
Upper(c) == CASE c = "a" -> "A" [] c = "b" -> "B" [] OTHER -> c

\* any(skip in href.lower() for skip in ['browse', 'search', 'help', 'index'])
IsNavigation(href) == href = "/bsbe/browse"

\* The test of scrape_letter_index on one link.
IsCandidate(link, letter) ==
    /\ Upper(link.initial) = Upper(letter)
    /\ link.length > 3
    /\ ~IsNavigation(link.href)

\* The loop of scrape_letter_index over soup.find_all('a', href=True): the
\* urls of the links that pass, in page order.
RECURSIVE FindCandidates(_, _)
FindCandidates(page, letter) ==
    IF page = <<>> THEN <<>>
    ELSE IF IsCandidate(Head(page), letter)
    THEN <<Head(page).href>> \o FindCandidates(Tail(page), letter)
    ELSE FindCandidates(Tail(page), letter)

\* GesetzeScraper.scrape_letter_index(letter): the candidates found and the
\* counters after the call.
scrape_letter_index(self, st, letter, outcomes, page) ==
    LET r == get_page(self, st, outcomes, 0)
    IN  IF r.response = None
        THEN [documents |-> <<>>, stats |-> r.stats, fetched |-> FALSE]
        ELSE LET found == FindCandidates(page, letter)
             IN  [documents |-> found,
                  stats |-> [r.stats EXCEPT
                               !.documents_found = @ + Len(found)],
                  fetched |-> TRUE]

\* GesetzeScraper.scrape_document(url): None or the document, and the
\* counters after the call.
scrape_document(self, st, url, outcomes, content) ==
    LET r == get_page(self, st, outcomes, 0)
    IN  IF r.response = None
        THEN [document |-> None, stats |-> r.stats]
        ELSE [document |-> Some(RawDocument(url, content)),
              stats |-> r.stats]

\* Where scrape_multiple_letters goes on after the letter at index li is
\* done: the index page of the next letter, or the return.
NextLetter(c) ==
    IF c.li < Len(c.letters)
    THEN [c EXCEPT !.pc = "index", !.li = @ + 1, !.doc_list = <<>>,
                   !.di = 0]
    ELSE [c EXCEPT !.pc = "returned", !.doc_list = <<>>, !.di = 0]

\* The first part of the body of the loop over letters: scrape_letter_index,
\* the truncation, and the entry of the loop over doc_list.
after_index(c, found, fetched) ==
    LET doc_list == Take(found, c.max_docs_per_letter)
        c1 == [c EXCEPT !.indexed = Append(@, fetched),
                        !.discovered = Append(@, found),
                        !.planned = @ \o doc_list]
    IN  IF doc_list = <<>> THEN NextLetter(c1)
        ELSE [c1 EXCEPT !.pc = "document", !.doc_list = doc_list, !.di = 1]

\* Mutant of after_document: a failed document ends the crawl.
after_document_abort(c, doc_data) ==
    LET c1 == [c EXCEPT
                 !.attempted = Append(@, c.doc_list[c.di]),
                 !.succeeded = Append(@, doc_data # None),
                 !.all_documents =
                     IF doc_data # None THEN Append(@, doc_data[1]) ELSE @]
    IN  IF doc_data = None
        THEN [c1 EXCEPT !.pc = "returned", !.doc_list = <<>>, !.di = 0]
        ELSE IF c.di < Len(c.doc_list) THEN [c1 EXCEPT !.di = @ + 1]
        ELSE NextLetter(c1)

\* Mutant of after_document: a scraped document is put in front of the
\* documents gathered so far.
after_document_prepends(c, doc_data) ==
    LET c1 == [c EXCEPT
                 !.attempted = Append(@, c.doc_list[c.di]),
                 !.succeeded = Append(@, doc_data # None),
                 !.all_documents =
                     IF doc_data # None THEN <<doc_data[1]>> \o @ ELSE @]
    IN  IF c.di < Len(c.doc_list) THEN [c1 EXCEPT !.di = @ + 1]
        ELSE NextLetter(c1)

\* One iteration of the loop over doc_list, after scrape_document returned
\* doc_data: the document is appended or the failure logged, and the loop
\* goes on.
after_document(c, doc_data) ==
    LET c1 == [c EXCEPT
                 !.attempted = Append(@, c.doc_list[c.di]),
                 !.succeeded = Append(@, doc_data # None),
                 !.all_documents =
                     IF doc_data # None THEN Append(@, doc_data[1]) ELSE @]
    IN  IF c.di < Len(c.doc_list) THEN [c1 EXCEPT !.di = @ + 1]
        ELSE NextLetter(c1)

\* The record of a scrape_multiple_letters call: its arguments, its place
\* (pc, the index li of the letter, doc_list and the index di in it) and
\* all_documents; and for the properties: for each index page asked for
\* whether it was fetched (indexed) and the candidates found on it
\* (discovered), the truncated candidate lists concatenated (planned), the
\* urls scrape_document was called with (attempted) and whether each call
\* gave a document (succeeded), the time slept since the last HTTP request
\* (rested, None before the first request) and the shortest time slept
\* between two consecutive HTTP requests (shortest, None before the second
\* request).
Crawl(letters, max_docs_per_letter) ==
    [pc |-> IF letters = <<>> THEN "returned" ELSE "index",
     letters |-> letters, max_docs_per_letter |-> max_docs_per_letter,
     li |-> IF letters = <<>> THEN 0 ELSE 1,
     doc_list |-> <<>>, di |-> 0, all_documents |-> <<>>,
     indexed |-> <<>>, discovered |-> <<>>, planned |-> <<>>,
     attempted |-> <<>>,
     succeeded |-> <<>>,
     rested |-> None, shortest |-> None]

NoCrawl == [Crawl(<<>>, 0) EXCEPT !.pc = "idle"]

\* The sleeps of a get_page call between its HTTP requests, and its sleep
\* after the last of them.
SleepsBetweenRequests(g) == SubSeq(g.sleeps, 1, g.attempts - 1)

SleepAfterLastRequest(g) ==
    IF Len(g.sleeps) >= g.attempts THEN g.sleeps[g.attempts] ELSE 0

RECURSIVE Shortest(_, _)
Shortest(shortest, gaps) ==
    IF gaps = <<>> THEN shortest
    ELSE Shortest(IF shortest = None THEN Some(Head(gaps))
                  ELSE Some(Min(shortest[1], Head(gaps))),
                  Tail(gaps))

\* The crawl c after a get_page call g: the time between the last request
\* before g and the first request of g is what was slept after the former.
Rested(c, g) ==
    [c EXCEPT
       !.shortest = Shortest(@, (IF c.rested = None THEN <<>>
                                 ELSE <<c.rested[1]>>)
                                    \o SleepsBetweenRequests(g)),
       !.rested = Some(SleepAfterLastRequest(g))]

FetchIdle ==
    /\ scraper = GesetzeScraper(0, 1)
    /\ stats = NewStats
    /\ lastGet = NoGet
    /\ crawl = NoCrawl
    /\ returns = NoReturns
    /\ report = NoReport

\* A scraper that a script calls get_page on.
InitFetch ==
    /\ scraper \in {GesetzeScraper(m, d) : m \in 0..MaxRetries, d \in Delays}
    /\ stats = NewStats
    /\ lastGet = NoGet
    /\ crawl = NoCrawl
    /\ returns = NoReturns
    /\ report = NoReport
    /\ StoreIdle
    /\ ChunkIdle
    /\ ProcIdle

\* The number of get_page calls that have returned.
Calls(st) == st.pages_fetched + st.errors - st.retries

\* One call scraper.get_page(url) from a script.  As run_scraper.py and
\* test_single_doc.py do, the script fetches first and asks for the
\* statistics afterwards.
GetPage ==
    /\ crawl.pc = "idle"
    /\ report.object = "none"
    /\ Calls(stats) < MaxCalls
    /\ \E outcomes \in Outcomes(scraper) :
         LET r == get_page(scraper, stats, outcomes, 0)
         IN  /\ stats' = r.stats
             /\ lastGet' = GetRecord(stats, outcomes, r)
             /\ returns' = Returned(returns, r.response)
    /\ UNCHANGED <<scraper, crawl, report, storeVars, chunkVars, procVars>>

\* The index pages a script asks for: no link, or one link to a document.
IndexPages == SeqsUpTo({link \in Links : link.href = "/document/d1"}, 1)

\* One call scraper.scrape_letter_index('A') from a script.
LetterIndex ==
    /\ crawl.pc = "idle"
    /\ report.object = "none"
    /\ Calls(stats) < MaxCalls
    /\ \E outcomes \in Outcomes(scraper), page \in IndexPages :
         LET r == scrape_letter_index(scraper, stats, "A", outcomes, page)
             g == get_page(scraper, stats, outcomes, 0)
         IN  /\ stats' = r.stats
             /\ lastGet' = GetRecord(stats, outcomes, g)
             /\ returns' = Returned(returns, g.response)
    /\ UNCHANGED <<scraper, crawl, report, storeVars, chunkVars, procVars>>

\* One call scraper.get_statistics() from a script.
GetStatistics ==
    /\ crawl.pc = "idle"
    /\ LET r == get_statistics(stats)
       IN  /\ stats' = r.stats
           /\ report' = r.returned
    /\ UNCHANGED <<scraper, lastGet, crawl, returns, storeVars, chunkVars,
                   procVars>>

\* The script assigns to a key of the mapping that get_statistics has just
\* returned. The assignment reaches the scraper's counters exactly when that
\* mapping is the scraper's own stats object.
SetItem ==
    /\ crawl.pc = "idle"
    /\ report.object # "none"
    /\ report = get_statistics(stats).returned
    /\ \E key \in DOMAIN NewStats :
         /\ report' = [report EXCEPT !.mapping[key] = 0]
         /\ stats' = IF report.object = "self.stats"
                      THEN [stats EXCEPT ![key] = 0]
                      ELSE stats
    /\ UNCHANGED <<scraper, lastGet, crawl, returns, storeVars, chunkVars,
                   procVars>>

NextFetch == GetPage \/ LetterIndex \/ GetStatistics \/ SetItem

SpecFetch == InitFetch /\ [][NextFetch]_vars

\* A scraper that run_scraper.py crawls with.
InitCrawl ==
    /\ scraper \in {GesetzeScraper(1, 2)}
    /\ stats = NewStats
    /\ lastGet = NoGet
    /\ crawl = NoCrawl
    /\ returns = NoReturns
    /\ report = NoReport
    /\ StoreIdle
    /\ ChunkIdle
    /\ ProcIdle

\* scraper.scrape_multiple_letters(letters, max_docs_per_letter) is called.
ScrapeMultipleLetters ==
    /\ crawl.pc = "idle"
    /\ \E letters \in SeqsUpTo(Letters, NumLetters), m \in 0..MaxLinks :
         crawl' = Crawl(letters, m)
    /\ UNCHANGED <<scraper, stats, lastGet, returns, report, storeVars,
                   chunkVars, procVars>>

\* The crawl asks for the index page of the current letter.
ScrapeLetterIndex ==
    /\ crawl.pc = "index"
    /\ \E outcomes \in Outcomes(scraper), page \in SeqsUpTo(Links, MaxLinks) :
         LET r == scrape_letter_index(scraper, stats,
                                      crawl.letters[crawl.li], outcomes, page)
             g == get_page(scraper, stats, outcomes, 0)
         IN  /\ stats' = r.stats
             /\ crawl' = Rested(after_index(crawl, r.documents, r.fetched),
                                g)
    /\ UNCHANGED <<scraper, lastGet, returns, report, storeVars, chunkVars,
                   procVars>>

\* The crawl asks for the current candidate document.
ScrapeDocument ==
    /\ crawl.pc = "document"
    /\ \E outcomes \in Outcomes(scraper) :
         LET r == scrape_document(scraper, stats, crawl.doc_list[crawl.di],
                                  outcomes, Served(crawl.doc_list[crawl.di]))
             g == get_page(scraper, stats, outcomes, 0)
         IN  /\ stats' = r.stats
             /\ crawl' = Rested(after_document(crawl, r.document), g)
    /\ UNCHANGED <<scraper, lastGet, returns, report, storeVars, chunkVars,
                   procVars>>

NextCrawl == ScrapeMultipleLetters \/ ScrapeLetterIndex \/ ScrapeDocument

SpecCrawl == InitCrawl /\ [][NextCrawl]_vars

----------------------------------------------------------------------------
(* The calls on the document store *)

InitStore ==
    /\ documents = <<>>
    /\ nextId = 1
    /\ scanOrder \in ScanOrders
    /\ lastSave = Call("none", <<>>, <<>>)
    /\ FetchIdle
    /\ ChunkIdle
    /\ ProcIdle

\* One call storage.save_document(doc_data) from a script.
SaveDocument ==
    /\ lastSave.returned
    /\ nextId <= MaxId
    /\ \E d \in DocInputs, fail \in FailPoints :
         LET r == save_document(Database, d, fail)
         IN  /\ documents' = r.db.documents
             /\ nextId' = r.db.nextId
             /\ lastSave' = [Call("save_document", <<d>>, documents) EXCEPT
                               !.fails = <<fail>>,
                               !.results = <<r.result>>,
                               !.sessions = <<r.session>>,
                               !.tables = <<r.db.documents>>,
                               !.returned = TRUE]
    /\ UNCHANGED <<scanOrder, fetchVars, chunkVars, procVars>>

\* storage.save_documents_batch(documents) is called: the counters are reset
\* and the loop starts (an empty list returns at once).
SaveDocumentsBatch ==
    /\ lastSave.returned
    /\ nextId <= MaxId
    /\ \E batch \in SeqsUpTo(DocInputs, MaxBatch) :
         lastSave' = Call("save_documents_batch", batch, documents)
    /\ UNCHANGED <<documents, nextId, scanOrder, fetchVars, chunkVars,
                   procVars>>

\* One iteration of the loop of save_documents_batch; after the last one the
\* call returns its counters.
BatchIteration ==
    /\ lastSave.op = "save_documents_batch"
    /\ ~lastSave.returned
    /\ \E fail \in FailPoints :
         LET r == batch_iteration(Database, lastSave, fail)
         IN  /\ documents' = r.db.documents
             /\ nextId' = r.db.nextId
             /\ lastSave' = r.call
    /\ UNCHANGED <<scanOrder, fetchVars, chunkVars, procVars>>

NextStore == SaveDocument \/ SaveDocumentsBatch \/ BatchIteration

SpecStore == InitStore /\ [][NextStore]_vars

----------------------------------------------------------------------------
(* Properties of the document store, checked under SpecStore *)

\* Two documents (rows or dictionaries) with the same url or content_hash.
SameKey(a, b) == a.url = b.url \/ a.content_hash = b.content_hash

\* The table as the i-th save_document of the recorded call found it.
TableBefore(call, i) == IF i = 1 THEN call.before ELSE call.tables[i - 1]

\* The calls of save_document made so far by the recorded call.
Handled(call) == 1..Len(call.results)

\* The rows of the table that the i-th document of the call matched.
StoredMatches(call, i) ==
    {row \in {TableBefore(call, i)[k] : k \in 1..Len(TableBefore(call, i))} :
        SameKey(row, call.batch[i])}

\* C1: after any sequence of save_document and save_documents_batch calls
\* (batches with repeated urls or content hashes included) no two stored
\* documents share a url and no two share a content_hash.
C1_NoTwoRowsShareUrlOrHash ==
    \A i, j \in 1..Len(documents) :
        i # j => /\ documents[i].url # documents[j].url
                 /\ documents[i].content_hash # documents[j].content_hash

\* A batch of two documents with one url and different contents has been
\* saved without a persistence error, and the table holds two rows.
C1_Witness ==
    /\ lastSave.op = "save_documents_batch"
    /\ lastSave.returned
    /\ Len(lastSave.batch) = 2
    /\ lastSave.batch[1].url = lastSave.batch[2].url
    /\ lastSave.batch[1].content_hash # lastSave.batch[2].content_hash
    /\ lastSave.sessions = <<"committed", "committed">>
    /\ Len(documents) = 2

\* C8: in save_documents_batch a persistence error on one document (its
\* session is rolled back) is counted once in errors, leaves the table as it
\* was before that document, and does not end the batch: the call returns
\* only after every document of the list has been handled.
C8_BatchErrorIsIsolated ==
    lastSave.op = "save_documents_batch" =>
        /\ \A i \in Handled(lastSave) :
              lastSave.sessions[i] = "rolled_back" =>
                  /\ lastSave.results[i] = None
                  /\ lastSave.tables[i] = TableBefore(lastSave, i)
        /\ lastSave.stats.errors =
              Cardinality({i \in Handled(lastSave) :
                             lastSave.sessions[i] = "rolled_back"})
        /\ lastSave.returned <=>
              Len(lastSave.results) = Len(lastSave.batch)
        /\ Len(lastSave.tables) > 0 =>
              documents = lastSave.tables[Len(lastSave.tables)]

\* A batch of two has returned: its first document met a persistence error,
\* its second was inserted.
C8_Witness ==
    /\ lastSave.op = "save_documents_batch"
    /\ lastSave.returned
    /\ lastSave.sessions = <<"rolled_back", "committed">>
    /\ lastSave.stats = [saved |-> 1, duplicates |-> 0, errors |-> 1]
    /\ Len(documents) = Len(lastSave.before) + 1

UnseenInBatch(call) ==
    {i \in 1..Len(call.batch) :
        /\ \A k \in 1..Len(call.before) :
              ~SameKey(call.before[k], call.batch[i])
        /\ \A j \in 1..(i - 1) : ~SameKey(call.batch[j], call.batch[i])}

\* The documents of a batch that match no row stored before the call and no
\* earlier document of the batch that was itself new in this sense: those
\* that find no matching row when their turn comes.
RECURSIVE NewInBatch(_, _)
NewInBatch(call, n) ==
    IF n = 0 THEN {}
    ELSE LET earlier == NewInBatch(call, n - 1)
         IN  IF /\ \A k \in 1..Len(call.before) :
                      ~SameKey(call.before[k], call.batch[n])
                /\ \A j \in earlier : ~SameKey(call.batch[j], call.batch[n])
             THEN earlier \cup {n}
             ELSE earlier

NoPersistenceError(call) ==
    \A i \in Handled(call) : call.sessions[i] = "committed"

\* C10 as stated: a returned batch has saved + errors = its length and
\* duplicates = 0; without a persistence error saved is the length and the
\* table grows by the number of documents that match neither a row stored
\* before nor an earlier document of the batch.
C10_RowsGrowByUnseen ==
    (lastSave.op = "save_documents_batch" /\ lastSave.returned) =>
        /\ lastSave.stats.saved + lastSave.stats.errors = Len(lastSave.batch)
        /\ lastSave.stats.duplicates = 0
        /\ NoPersistenceError(lastSave) =>
              /\ lastSave.stats.saved = Len(lastSave.batch)
              /\ Len(documents) - Len(lastSave.before) =
                    Cardinality(UnseenInBatch(lastSave))

\* C10 as amended: a returned batch has saved + errors = its length and
\* duplicates = 0; without a persistence error saved is the length and the
\* table grows by the number of documents that match neither a row stored
\* before nor an earlier document of the batch that was itself inserted.
C10_RowsGrowByNew ==
    (lastSave.op = "save_documents_batch" /\ lastSave.returned) =>
        /\ lastSave.stats.saved + lastSave.stats.errors = Len(lastSave.batch)
        /\ lastSave.stats.duplicates = 0
        /\ NoPersistenceError(lastSave) =>
              /\ lastSave.stats.saved = Len(lastSave.batch)
              /\ Len(documents) - Len(lastSave.before) =
                    Cardinality(NewInBatch(lastSave, Len(lastSave.batch)))

\* A batch of two has returned without a persistence error: its first
\* document shared its url with a stored row and was not inserted, its
\* second shares its content_hash with the first and was inserted.
C10_Witness ==
    /\ lastSave.op = "save_documents_batch"
    /\ lastSave.returned
    /\ Len(lastSave.batch) = 2
    /\ NoPersistenceError(lastSave)
    /\ lastSave.stats.saved = 2
    /\ Len(lastSave.before) = 1
    /\ lastSave.before[1].url = lastSave.batch[1].url
    /\ lastSave.batch[1].content_hash = lastSave.batch[2].content_hash
    /\ Len(documents) = 2

----------------------------------------------------------------------------
(* The calls on the chunker *)

InitChunk ==
    /\ ChunkIdle
    /\ StoreIdle
    /\ FetchIdle
    /\ ProcIdle

\* TextChunker(chunk_size, chunk_overlap, min_chunk_size) is constructed.
Construct ==
    /\ chunker = NoChunker
    /\ \E chunk_size \in 0..MaxChunkSize, chunk_overlap \in 0..MaxChunkSize,
          min_chunk_size \in 0..MaxChunkSize :
         chunker' = TextChunker(chunk_size, chunk_overlap, min_chunk_size)
    /\ UNCHANGED <<chunked, loop, storeVars, fetchVars, procVars>>

\* chunker.chunk_by_words(text)
ChunkByWords ==
    /\ chunker # NoChunker
    /\ chunked.op = "none"
    /\ \E text \in Texts :
         chunked' = Chunked("chunk_by_words", text,
                            chunk_by_words(chunker, text, None))
    /\ UNCHANGED <<chunker, loop, storeVars, fetchVars, procVars>>

\* chunker.chunk_by_paragraphs(text)
ChunkByParagraphs ==
    /\ chunker # NoChunker
    /\ chunked.op = "none"
    /\ \E text \in Texts :
         chunked' = Chunked("chunk_by_paragraphs", text,
                            chunk_by_paragraphs(chunker, text, None))
    /\ UNCHANGED <<chunker, loop, storeVars, fetchVars, procVars>>

\* chunker.chunk_document(text, strategy=strategy)
ChunkDocument ==
    /\ chunker # NoChunker
    /\ chunked.op = "none"
    /\ \E text \in Texts, strategy \in Strategies :
         chunked' = ChunkedDocument(strategy, text,
                                    chunk_document(chunker, text, None,
                                                   strategy))
    /\ UNCHANGED <<chunker, loop, storeVars, fetchVars, procVars>>

NextChunk == Construct \/ ChunkByWords \/ ChunkByParagraphs \/ ChunkDocument

SpecChunk == InitChunk /\ [][NextChunk]_vars

\* The while loop of one call makes at most this many passes in the model.
MaxPasses == MaxLen

\* chunker.chunk_by_words(text) is called.
BeginChunkByWords ==
    /\ chunker # NoChunker
    /\ loop.pc = "idle"
    /\ \E text \in Texts :
         loop' = enter_chunk_by_words(chunker, Loop("idle", "chunk_by_words"),
                                      text, None)
    /\ UNCHANGED <<chunker, chunked, storeVars, fetchVars, procVars>>

\* chunker.chunk_by_paragraphs(text) is called.
BeginChunkByParagraphs ==
    /\ chunker # NoChunker
    /\ loop.pc = "idle"
    /\ \E text \in Texts :
         loop' = [Loop("paragraphs", "chunk_by_paragraphs") EXCEPT
                    !.paras = re_split(clean_text(chunker, text), <<>>)]
    /\ UNCHANGED <<chunker, chunked, storeVars, fetchVars, procVars>>

ParagraphPass ==
    /\ loop.pc = "paragraphs"
    /\ loop' = paragraph_pass(chunker, loop, None)
    /\ UNCHANGED <<chunker, chunked, storeVars, fetchVars, procVars>>

WindowPass ==
    /\ loop.pc = "window"
    /\ loop.passes < MaxPasses
    /\ loop' = window_pass(chunker, loop, None)
    /\ UNCHANGED <<chunker, chunked, storeVars, fetchVars, procVars>>

NextLoop ==
    \/ Construct
    \/ BeginChunkByWords
    \/ BeginChunkByParagraphs
    \/ ParagraphPass
    \/ WindowPass

\* ParagraphPass can be taken exactly when the call is in the for loop, and
\* it always changes loop.
ParagraphPassEnabled == loop.pc = "paragraphs"

\* A call that has started keeps running: weak fairness of both passes,
\* that of ParagraphPass written with ParagraphPassEnabled for
\* ENABLED <<ParagraphPass>>_vars.
SpecLoop ==
    /\ InitChunk
    /\ [][NextLoop]_vars
    /\ WF_vars(WindowPass)
    /\ ([]<>(~ParagraphPassEnabled) \/ []<><<ParagraphPass>>_vars)

----------------------------------------------------------------------------
(* Properties of get_page, checked under SpecFetch *)

\* The first attempt of a call that the server answers, 0 when it answers
\* none of the max_retries + 1 attempts.
FirstOk(outcomes) ==
    IF \E k \in DOMAIN outcomes : outcomes[k] = "ok"
    THEN CHOOSE k \in DOMAIN outcomes :
             /\ outcomes[k] = "ok"
             /\ \A j \in 1..(k - 1) : outcomes[j] = "fail"
    ELSE 0

\* C2: for every pattern of request failures get_page makes at most
\* max_retries + 1 HTTP attempts and then returns: the response at the
\* first attempt that succeeds, otherwise None after exactly
\* max_retries + 1 failed attempts; no exception leaves the call.
C2_GetPageTriesThenReturns ==
    lastGet.called =>
        /\ lastGet.attempts <= scraper.max_retries + 1
        /\ lastGet.raised = None
        /\ IF FirstOk(lastGet.outcomes) # 0
           THEN /\ lastGet.response # None
                /\ lastGet.attempts = FirstOk(lastGet.outcomes)
           ELSE /\ lastGet.response = None
                /\ lastGet.attempts = scraper.max_retries + 1

\* A get_page call on a scraper with max_retries = 3 has failed four times
\* and returned None.
C2_Witness ==
    /\ lastGet.called
    /\ scraper.max_retries = 3
    /\ lastGet.outcomes = <<"fail", "fail", "fail", "fail">>
    /\ lastGet.response = None
    /\ lastGet.attempts = 4

\* C6: a get_page call that fails f times (1 <= f <= max_retries) and then
\* succeeds changes the counters by retries +f, pages_fetched +1 and
\* errors +0; errors grows only in a call that ends in terminal failure, by
\* one.
C6_ErrorsCountTerminalFailures ==
    lastGet.called =>
        LET f == lastGet.attempts - 1
        IN  IF lastGet.response # None
            THEN /\ stats.retries = lastGet.before.retries + f
                 /\ stats.pages_fetched = lastGet.before.pages_fetched + 1
                 /\ stats.errors = lastGet.before.errors
            ELSE stats.errors = lastGet.before.errors + 1

\* The backoff sleeps before the first f retries of a call.
BackoffSleeps(self, f) ==
    [k \in 1..f |-> (2 ^ (k - 1)) * self.delay_seconds]

\* C11: the sleeps of one get_page call are, in order, a backoff sleep of
\* (2^k) * delay_seconds before the k-th retry (k from 0) and, after a
\* successful attempt, one sleep of delay_seconds; a call that exhausts its
\* retries does not sleep after its last failed attempt.
C11_SleepsOfGetPage ==
    lastGet.called =>
        lastGet.sleeps =
            BackoffSleeps(scraper, lastGet.attempts - 1)
                \o (IF lastGet.response # None
                    THEN <<scraper.delay_seconds>> ELSE <<>>)

\* With delay 1 a call has failed twice and then succeeded: it slept 1, 2
\* and then 1.
C11_Witness ==
    /\ lastGet.called
    /\ scraper.delay_seconds = 1
    /\ lastGet.attempts = 3
    /\ lastGet.response # None
    /\ lastGet.sleeps = <<1, 2, 1>>

----------------------------------------------------------------------------
(* Properties of the crawl, checked under SpecCrawl *)

\* The documents that the calls of scrape_document gave, in call order.
RECURSIVE Scraped(_, _)
Scraped(urls, ok) ==
    IF urls = <<>> THEN <<>>
    ELSE IF Head(ok)
    THEN <<RawDocument(Head(urls), Served(Head(urls)))>>
             \o Scraped(Tail(urls), Tail(ok))
    ELSE Scraped(Tail(urls), Tail(ok))

\* C7: in scrape_multiple_letters a terminal fetch failure, of a candidate
\* or of an index page, never stops the crawl: scrape_document is called
\* for the candidates of the truncated lists in order, each once; when the
\* call returns every letter's index page has been asked for, every
\* candidate has been attempted, and the documents returned are those that
\* succeeded.
C7_FailureDoesNotStopCrawl ==
    /\ Len(crawl.attempted) <= Len(crawl.planned)
    /\ crawl.attempted = SubSeq(crawl.planned, 1, Len(crawl.attempted))
    /\ Len(crawl.succeeded) = Len(crawl.attempted)
    /\ crawl.pc = "returned" =>
          /\ Len(crawl.indexed) = Len(crawl.letters)
          /\ crawl.attempted = crawl.planned
          /\ crawl.all_documents = Scraped(crawl.attempted, crawl.succeeded)

\* A crawl over two letters has returned: the first letter's index page
\* failed for good, the second letter's first candidate failed for good and
\* its second candidate was scraped.
C7_Witness ==
    /\ crawl.pc = "returned"
    /\ crawl.indexed = <<FALSE, TRUE>>
    /\ crawl.succeeded = <<FALSE, TRUE>>
    /\ Len(crawl.all_documents) = 1

----------------------------------------------------------------------------
(* Properties of the chunker, checked under SpecChunk *)

\* The configurations the constructor's contract admits.
ValidConfig(self) ==
    /\ self.chunk_size > 0
    /\ 0 <= self.chunk_overlap /\ self.chunk_overlap < self.chunk_size
    /\ 0 < self.min_chunk_size /\ self.min_chunk_size <= self.chunk_size

\* C3: under a valid configuration one call of chunk_by_words or of
\* chunk_by_paragraphs returns N >= 1 chunks whose chunk_index values, in
\* the order emitted, are 0, 1, ..., N-1.
C3_IndicesAreContiguous ==
    (chunked.op # "none" /\ ValidConfig(chunker)) =>
        /\ chunked.returned
        /\ Len(chunked.chunks) >= 1
        /\ \A k \in 1..Len(chunked.chunks) :
               chunked.chunks[k].chunk_index = k - 1

\* chunk_by_paragraphs has split an oversized paragraph into three
\* renumbered sub-chunks.
C3_Witness ==
    /\ chunked.op = "chunk_by_paragraphs"
    /\ ValidConfig(chunker)
    /\ chunked.returned
    /\ Len(chunked.chunks) = 3
    /\ chunked.chunks[3].chunk_index = 2

\* Chunk 0 whole, then every later chunk without its first chunk_overlap
\* words.
RECURSIVE Reassembled(_, _, _)
Reassembled(chunks, k, chunk_overlap) ==
    IF k > Len(chunks) THEN <<>>
    ELSE LET w == split(chunks[k].text)
             kept == IF k = 1 THEN w
                     ELSE SubSeq(w, chunk_overlap + 1, Len(w))
         IN  kept \o Reassembled(chunks, k + 1, chunk_overlap)

\* C4: under a valid configuration the chunks of chunk_by_words, chunk 0
\* whole and every later chunk without its first chunk_overlap words,
\* concatenate to the word sequence of the normalized input.
C4_ChunksCoverTheWords ==
    (chunked.op = "chunk_by_words" /\ ValidConfig(chunker)) =>
        /\ chunked.returned
        /\ Reassembled(chunked.chunks, 1, chunker.chunk_overlap)
               = split(clean_text(chunker, chunked.text))

\* chunk_by_words has cut a text that normalization changes into
\* overlapping windows.
C4_Witness ==
    /\ chunked.op = "chunk_by_words"
    /\ ValidConfig(chunker)
    /\ chunker.chunk_overlap >= 1
    /\ chunked.returned
    /\ Len(chunked.chunks) >= 2
    /\ clean_text(chunker, chunked.text) # chunked.text

\* C5: a TextChunker with invalid parameters is never constructed, so no
\* chunking call runs under an invalid configuration.
C5_InvalidConfigIsRejected ==
    chunker # NoChunker => ValidConfig(chunker)

\* The words of the normalized text of the last chunking call.
Words == split(clean_text(chunker, chunked.text))

\* The number of window starts 0, a, 2a, ... below w.
WindowCount(w, a) == CHOOSE n \in 0..w : (n - 1) * a < w /\ w <= n * a

C13_EndPositionIsClamped ==
    (/\ chunked.op = "chunk_by_words"
     /\ ValidConfig(chunker)
     /\ Len(Words) > chunker.chunk_size) =>
        \A k \in 1..Len(chunked.chunks) :
            LET md == chunked.chunks[k].metadata
            IN  /\ "end_position" \in DOMAIN md
                /\ md.start_position < md.end_position
                /\ md.end_position <= md.total_words
                /\ md.end_position = Min(md.start_position
                                             + chunker.chunk_size,
                                         md.total_words)
                /\ md.word_count = md.end_position - md.start_position

\* The paragraphs of the text as given: its pieces between blank lines.
InputParagraphs == re_split(chunked.text, <<>>)

WordCount(para) == Len(split(para))

\* The paragraphs packed in order into groups of at most size words, a new
\* group starting exactly when the next paragraph would exceed size.
RECURSIVE Packed(_, _, _)
Packed(paras, group, size) ==
    IF paras = <<>> THEN IF group = <<>> THEN <<>> ELSE <<group>>
    ELSE LET count == Len(split(join(<<" ">>, group)))
         IN  IF group = <<>> \/ count + WordCount(Head(paras)) <= size
             THEN Packed(Tail(paras), Append(group, Head(paras)), size)
             ELSE <<group>> \o Packed(Tail(paras), <<Head(paras)>>, size)

\* A paragraph with its whitespace normalized.
Normalized(para) == join(<<" ">>, split(para))

\* C14: chunk_by_paragraphs splits the text on blank lines: an input of
\* k >= 2 non-empty paragraphs separated by blank lines, none longer than
\* chunk_size, gives one chunk per group of paragraphs that fit chunk_size
\* together (a single chunk with paragraph_count = k when they all fit),
\* each chunk's text being its paragraphs joined by a blank line.
C14_ParagraphsAreKept ==
    (/\ chunked.op = "chunk_by_paragraphs"
     /\ ValidConfig(chunker)
     /\ Len(InputParagraphs) >= 2
     /\ \A i \in 1..Len(InputParagraphs) :
            /\ WordCount(InputParagraphs[i]) >= 1
            /\ WordCount(InputParagraphs[i]) <= chunker.chunk_size) =>
        LET groups == Packed(InputParagraphs, <<>>, chunker.chunk_size)
        IN  /\ chunked.returned
            /\ Len(chunked.chunks) = Len(groups)
            /\ \A k \in 1..Len(groups) :
                   /\ "paragraph_count"
                          \in DOMAIN chunked.chunks[k].metadata
                   /\ chunked.chunks[k].metadata.paragraph_count
                          = Len(groups[k])
                   /\ chunked.chunks[k].text
                          = join(<<"\n", "\n">>,
                                 [i \in 1..Len(groups[k]) |->
                                     Normalized(groups[k][i])])

\* C18: for an input whose normalized word count is at most chunk_size
\* chunk_by_words returns exactly one chunk: chunk_index 0, the normalized
\* input as text, is_complete true and word_count the input's word count.
C18_SmallDocumentIsOneChunk ==
    (/\ chunked.op = "chunk_by_words"
     /\ Len(Words) <= chunker.chunk_size) =>
        /\ chunked.returned
        /\ Len(chunked.chunks) = 1
        /\ chunked.chunks[1].chunk_index = 0
        /\ chunked.chunks[1].text = clean_text(chunker, chunked.text)
        /\ "is_complete" \in DOMAIN chunked.chunks[1].metadata
        /\ chunked.chunks[1].metadata.is_complete
        /\ chunked.chunks[1].metadata.word_count = Len(Words)

\* chunk_by_words was given two words on two lines with chunk_size 2.
C18_Witness ==
    /\ chunked.op = "chunk_by_words"
    /\ chunker.chunk_size = 2
    /\ Len(Words) = 2
    /\ \E i \in 1..Len(chunked.text) : chunked.text[i] = "\n"
    /\ Len(chunked.chunks) = 1

\* C19: clean_text is idempotent on every string of words, spaces and
\* newlines: clean_text(clean_text(x)) = clean_text(x).
C19_CleanTextIsIdempotent ==
    chunked.op # "none" =>
        clean_text(chunker, clean_text(chunker, chunked.text))
            = clean_text(chunker, chunked.text)

\* A text with a run of spaces, a blank line and a trailing newline was
\* normalized.
C19_Witness ==
    /\ chunked.op # "none"
    /\ \E i \in 1..(Len(chunked.text) - 1) :
           chunked.text[i] = "\n" /\ chunked.text[i + 1] = "\n"
    /\ \E i \in 1..(Len(chunked.text) - 1) :
           chunked.text[i] = " " /\ chunked.text[i + 1] = " "
    /\ chunked.text[Len(chunked.text)] = "\n"
    /\ Len(Words) = 2

----------------------------------------------------------------------------
(* Properties of the chunker's loops, checked under SpecLoop *)

\* C15: under a valid configuration chunk_by_words and chunk_by_paragraphs
\* terminate: every pass of the window loop moves start forward by
\* chunk_size - chunk_overlap > 0, whether or not it emits the window, the
\* loop is left only when start has reached or passed the word count, and
\* every call that has started returns.
C15_ChunkingTerminates ==
    /\ [][(ValidConfig(chunker) /\ loop.pc = "window") =>
             /\ loop'.pc = "window" =>
                   /\ loop'.start
                          = loop.start + chunker.chunk_size
                                       - chunker.chunk_overlap
                   /\ loop'.start > loop.start
             /\ loop'.pc # "window" => loop.start >= Len(loop.words)]_vars
    /\ (ValidConfig(chunker) /\ loop.pc \in {"paragraphs", "window"})
           ~> (loop.pc = "returned")

\* A chunk_by_paragraphs call under a valid configuration has returned
\* after three passes of the window loop.
C15_Witness ==
    /\ ValidConfig(chunker)
    /\ loop.op = "chunk_by_paragraphs"
    /\ loop.pc = "returned"
    /\ loop.passes = 3
    /\ Len(loop.result) = 3

----------------------------------------------------------------------------
(* Properties of the crawl's output, checked under SpecCrawl *)

\* The calls of scrape_document that gave a document, by their position
\* among the calls.
Successes == {i \in 1..Len(crawl.succeeded) : crawl.succeeded[i]}

\* The k-th successful call.
KthSuccess(k) ==
    CHOOSE i \in Successes : Cardinality({j \in Successes : j <= i}) = k

\* C16: the sequence scrape_multiple_letters returns holds exactly the
\* candidates that were scraped successfully, each once, in the order of
\* the calls: by letter, then by discovery order on the letter's index
\* page; a failed candidate contributes nothing.
C16_OutputIsTheSuccessesInOrder ==
    /\ Len(crawl.all_documents) = Cardinality(Successes)
    /\ \A k \in 1..Len(crawl.all_documents) :
           LET url == crawl.planned[KthSuccess(k)]
           IN  crawl.all_documents[k] = RawDocument(url, Served(url))

\* A crawl over two letters has returned two documents, one for each
\* letter, a candidate between them having failed.
C16_Witness ==
    /\ crawl.pc = "returned"
    /\ crawl.indexed = <<TRUE, TRUE>>
    /\ crawl.succeeded = <<TRUE, FALSE, TRUE>>
    /\ Len(crawl.all_documents) = 2
    /\ crawl.all_documents[1].url # crawl.all_documents[2].url

\* The first min(d, max) of the d candidates found on an index page.
Truncated(found, max) ==
    [i \in 1..(IF Len(found) < max THEN Len(found) ELSE max) |-> found[i]]

RECURSIVE Flatten(_)
Flatten(lists) ==
    IF lists = <<>> THEN <<>> ELSE Head(lists) \o Flatten(Tail(lists))

\* The candidates to fetch for the first n letters.
Due(n) ==
    Flatten([l \in 1..n |->
                Truncated(crawl.discovered[l], crawl.max_docs_per_letter)])

\* C17: for every letter scrape_document is called for exactly the first
\* min(d, max_docs_per_letter) of the d candidates found on its index page,
\* in discovery order, and the letter contributes at most that many
\* documents to the output.
C17_AtMostMaxDocsPerLetter ==
    /\ crawl.planned = Due(Len(crawl.discovered))
    /\ Len(crawl.attempted) <= Len(crawl.planned)
    /\ \A i \in 1..Len(crawl.attempted) :
           crawl.attempted[i] = crawl.planned[i]
    /\ crawl.pc \in {"index", "returned"} => crawl.attempted = crawl.planned
    /\ crawl.pc = "returned" => Len(crawl.discovered) = Len(crawl.letters)
    /\ \A l \in 1..Len(crawl.discovered) :
           Cardinality({i \in Successes :
                           Len(Due(l - 1)) < i /\ i <= Len(Due(l))})
               <= Len(Truncated(crawl.discovered[l],
                                crawl.max_docs_per_letter))

\* A crawl with max_docs_per_letter = 1 has returned: two candidates were
\* found for a letter and only the first was fetched.
C17_Witness ==
    /\ crawl.pc = "returned"
    /\ crawl.max_docs_per_letter = 1
    /\ \E l \in 1..Len(crawl.discovered) :
           /\ Len(crawl.discovered[l]) = 2
           /\ crawl.discovered[l][1] # crawl.discovered[l][2]
           /\ Len(Due(l)) = Len(Due(l - 1)) + 1
           /\ crawl.attempted[Len(Due(l))] = crawl.discovered[l][1]
    /\ Len(crawl.attempted) = Len(crawl.discovered)

----------------------------------------------------------------------------
(* Properties of the stored content hash, checked under SpecStore *)

----------------------------------------------------------------------------
(* Properties of get_statistics and of the counters, under SpecFetch *)

\* C21: get_statistics returns success_rate = pages_fetched /
\* (pages_fetched + errors), a ratio between 0 and 1, and returns 0 when
\* pages_fetched + errors = 0.
C21_SuccessRateIsARatio ==
    [][GetStatistics =>
         LET total == stats.pages_fetched + stats.errors
             success_rate == report'.mapping.success_rate
         IN  IF total = 0
             THEN success_rate.num = 0
             ELSE /\ success_rate.num * total
                        = stats.pages_fetched * success_rate.den
                  /\ 0 <= success_rate.num
                  /\ success_rate.num <= success_rate.den]_vars

\* C25: after any sequence of completed get_page calls on one scraper,
\* errors = retries + (number of calls that returned None), pages_fetched =
\* number of calls that returned a response, and retries <= max_retries x
\* (number of calls).
C25_CountersOfCompletedCalls ==
    /\ stats.errors = stats.retries + returns.none
    /\ stats.pages_fetched = returns.response
    /\ stats.retries
           <= scraper.max_retries * (returns.none + returns.response)

\* One call has returned None after its retries and another has returned a
\* response after a retry.
C25_Witness ==
    /\ returns.none = 1
    /\ returns.response = 1
    /\ scraper.max_retries = 2
    /\ stats.retries = 3

\* C30: the counters pages_fetched, errors, retries and documents_found of
\* a scraper never decrease; only get_page (called directly or by
\* scrape_letter_index) changes the first three and only
\* scrape_letter_index changes documents_found; get_statistics leaves all
\* four unchanged and returns a fresh mapping, so changing the returned
\* mapping does not change the scraper's counters.
C30_CountersOnlyGrow ==
    [][/\ \A key \in DOMAIN NewStats : stats'[key] >= stats[key]
       /\ (\E key \in {"pages_fetched", "errors", "retries"} :
               stats'[key] # stats[key])
              => (lastGet' # lastGet /\ returns' # returns)
       /\ stats'.documents_found # stats.documents_found => LetterIndex
       /\ GetStatistics => /\ stats' = stats
                           /\ report'.object = "new"
       /\ SetItem => stats' = stats]_vars

\* After a fetch and an index page with a candidate, the script has set
\* pages_fetched to 0 in the mapping returned by get_statistics; the
\* scraper's counter still is 2.
C30_Witness ==
    /\ report.object = "new"
    /\ report.mapping.success_rate = Fraction(200, 2)
    /\ report.mapping.pages_fetched = 0
    /\ stats.pages_fetched = 2
    /\ stats.documents_found = 1

----------------------------------------------------------------------------
(* The rate limit over a crawl, under SpecCrawl *)

\* C24: over a whole crawl by one scraper, between any two consecutive HTTP
\* requests the scraper sleeps for at least delay_seconds, whatever the
\* outcome of the earlier request (success, failure followed by a retry, or
\* terminal failure after the last retry).
C24_SleepBetweenRequests ==
    crawl.shortest # None => crawl.shortest[1] >= scraper.delay_seconds

----------------------------------------------------------------------------
(* The two chunking strategies compared, under SpecChunk *)

\* The (chunk_index, text) pairs of a list of chunks.
Pairs(chunks) ==
    [k \in 1..Len(chunks) |-> <<chunks[k].chunk_index, chunks[k].text>>]

\* What the other strategy returns for the text of the last call.
OtherStrategy ==
    IF \/ chunked.op = "chunk_by_paragraphs"
       \/ (chunked.op = "chunk_document" /\ chunked.strategy = "paragraphs")
    THEN chunk_by_words(chunker, chunked.text, None)
    ELSE chunk_by_paragraphs(chunker, chunked.text, None)

Blank(text) == \A i \in 1..Len(text) : text[i] \in Whitespace

----------------------------------------------------------------------------
(* Sessions, the chunk store and process_documents.py *)

\* Mutant of session_scope: the session is closed only after a commit.
session_scope_leaks(body, commit_raises) ==
    LET tried == IF body = "raises" THEN <<>> ELSE <<"commit">>
        exception == body = "raises" \/ commit_raises
    IN  [use |-> "session_scope", body |-> body,
         commit_raises |-> commit_raises,
         calls |-> IF exception THEN tried \o <<"rollback">>
                   ELSE tried \o <<"close">>,
         committed |-> ~exception, raised |-> exception]

\* DatabaseManager.session_scope() around a block that ends as body says
\* ("finishes" at its end, "returns" from inside it, or "raises"):
\* `try: yield session; session.commit()`, then `except Exception:
\* session.rollback(); raise`, then `finally: session.close()`.
session_scope(body, commit_raises) ==
    LET tried == IF body = "raises" THEN <<>> ELSE <<"commit">>
        exception == body = "raises" \/ commit_raises
        handled == IF exception THEN tried \o <<"rollback">> ELSE tried
    IN  [use |-> "session_scope", body |-> body,
         commit_raises |-> commit_raises,
         calls |-> handled \o <<"close">>,
         committed |-> ~exception, raised |-> exception]

\* The use of session_scope in save_document: the block raises in the
\* query or in the flush, and otherwise returns from inside the with
\* statement, with the id of the existing row or of the new one.
save_document_scope(db, d, fail) ==
    LET body == IF fail = "query" THEN "raises"
                ELSE IF first(db, d) # None THEN "returns"
                ELSE IF \/ fail = "flush"
                        \/ IntegrityError(db.documents,
                                          Document(db.nextId, d))
                THEN "raises"
                ELSE "returns"
    IN  [session_scope(body, fail = "commit") EXCEPT !.use = "save_document"]

\* Where, if anywhere, the database raises during one save_chunks call or
\* during the read of process_documents.py: the session is made with
\* autoflush=False, so the INSERTs reach the database in the commit.
ChunkFailPoints == {"none", "query", "commit"}

\* A new row of app.chunks.
Chunk(document_id, chunk) ==
    [document_id |-> document_id, chunk_index |-> chunk.chunk_index,
     chunk_text |-> chunk.text, chunk_metadata |-> chunk.metadata]

\* Mutant of MarkProcessed: the document is left as it is.
MarkProcessed_skips(docs, document_id) == docs

\* `doc.processed = True` on the row found by filter_by(id=document_id).
MarkProcessed(docs, document_id) ==
    [k \in 1..Len(docs) |->
        IF docs[k].id = document_id
        THEN [docs[k] EXCEPT !.processed = TRUE]
        ELSE docs[k]]

\* Mutant of save_chunks: every chunk is committed as it is added.
save_chunks_commits_each(db, document_id, chunk_list, fail) ==
    LET pending == [k \in 1..Len(chunk_list) |->
                       Chunk(document_id, chunk_list[k])]
        scope == session_scope(IF fail = "query" THEN "raises"
                               ELSE "finishes", fail = "commit")
    IN  IF scope.committed
        THEN [db |-> [documents |-> MarkProcessed(db.documents, document_id),
                      chunks |-> db.chunks \o pending],
              result |-> Len(chunk_list), raised |-> FALSE,
              session |-> [scope EXCEPT !.use = "save_chunks"]]
        ELSE [db |-> [db EXCEPT !.chunks = @ \o pending],
              result |-> 0, raised |-> FALSE,
              session |-> [scope EXCEPT !.use = "save_chunks"]]

\* ChunkStorage.save_chunks(document_id, chunks) on the tables db.  The
\* rows are added to the session, the document is looked up and marked;
\* the commit at the end of the block writes all of it or raises, and
\* raises when a row refers to a document that is not stored (ForeignKey
\* on document_id).  Every exception is rolled back by session_scope and
\* turned into the value 0.
save_chunks(db, document_id, chunk_list, fail) ==
    LET pending == [k \in 1..Len(chunk_list) |->
                       Chunk(document_id, chunk_list[k])]
        doc == {k \in 1..Len(db.documents) :
                   db.documents[k].id = document_id}
        body == IF fail = "query" THEN "raises" ELSE "finishes"
        scope == session_scope(body, \/ fail = "commit"
                                     \/ (pending # <<>> /\ doc = {}))
    IN  IF scope.committed
        THEN [db |-> [documents |-> MarkProcessed(db.documents, document_id),
                      chunks |-> db.chunks \o pending],
              result |-> Len(chunk_list), raised |-> FALSE,
              session |-> [scope EXCEPT !.use = "save_chunks"]]
        ELSE [db |-> db, result |-> 0, raised |-> FALSE,
              session |-> [scope EXCEPT !.use = "save_chunks"]]

\* The text of a document's content: one word, or three.
TextOfContent(content) ==
    IF content = "c1" THEN <<"a">> ELSE <<"a", " ", "a", "\n", "a">>

\* chunker = TextChunker(chunk_size=500, chunk_overlap=50,
\* min_chunk_size=100) in process_documents.py, scaled to the texts of the
\* model: a valid configuration under which a document of three words
\* gives more than one chunk.
ScriptChunker == TextChunker(2, 1, 1)

\* session.query(Document).filter_by(processed=False).all() and the list
\* made of it: the unprocessed rows in the database's scan order.
RECURSIVE Unprocessed(_)
Unprocessed(docs) ==
    IF docs = <<>> THEN <<>>
    ELSE IF Head(docs).processed THEN Unprocessed(Tail(docs))
    ELSE <<[id |-> Head(docs).id, content |-> Head(docs).content]>>
             \o Unprocessed(Tail(docs))

Reverse(s) == [k \in 1..Len(s) |-> s[Len(s) + 1 - k]]

doc_list(db) ==
    IF db.scanOrder = "heap" THEN Unprocessed(db.documents)
    ELSE Reverse(Unprocessed(db.documents))

Tables == [documents |-> documents, chunks |-> chunkRows]

\* The tables of a database that process_documents.py runs against.
InitProcess ==
    /\ documents = <<>>
    /\ nextId = 1
    /\ scanOrder \in ScanOrders
    /\ lastSave = Call("none", <<>>, <<>>)
    /\ ProcIdle
    /\ FetchIdle
    /\ ChunkIdle

\* A script calls storage.save_document(doc_data).
StoreDocument ==
    /\ nextId <= MaxId
    /\ \E d \in DocInputs, fail \in FailPoints :
         LET r == save_document(Database, d, fail)
         IN  /\ documents' = r.db.documents
             /\ nextId' = r.db.nextId
             /\ session' = save_document_scope(Database, d, fail)
    /\ UNCHANGED <<scanOrder, lastSave, chunkRows, runs, lastChunks,
                   interleaved, fetchVars, chunkVars>>

\* A run of process_documents.py begins: it reads the unprocessed
\* documents in a session of its own.  An exception leaves the script; with
\* no document to process the script returns.
BeginRun(r) ==
    /\ runs[r].pc = "idle"
    /\ \E fail \in ChunkFailPoints :
         LET scope == session_scope(IF fail = "query" THEN "raises"
                                    ELSE "finishes", fail = "commit")
             read == doc_list(Database)
         IN  /\ session' = [scope EXCEPT !.use = "process_documents"]
             /\ runs' = [runs EXCEPT ![r] =
                            IF scope.raised \/ read = <<>> THEN NoRun
                            ELSE Run("loop", read)]
             /\ interleaved' =
                    (\/ interleaved
                     \/ (/\ ~scope.raised /\ read # <<>>
                         /\ \E o \in Runs \ {r} : runs[o].pc = "loop"))
    /\ UNCHANGED <<storeVars, chunkRows, lastChunks, fetchVars, chunkVars>>

\* One pass of the loop over doc_list: chunk_by_words on the content and
\* save_chunks on the result; after the last document the script returns.
ProcessDocument(r) ==
    /\ runs[r].pc = "loop"
    /\ \E fail \in ChunkFailPoints :
         LET doc == runs[r].doc_list[runs[r].i]
             chunk_list == chunk_by_words(ScriptChunker,
                                          TextOfContent(doc.content),
                                          Some(doc.id)).chunks
             s == save_chunks(Tables, doc.id, chunk_list, fail)
         IN  /\ documents' = s.db.documents
             /\ chunkRows' = s.db.chunks
             /\ session' = s.session
             /\ lastChunks' = SaveChunksCall(doc.id, chunk_list, fail, Tables,
                                             s.db, s.result, s.raised)
             /\ runs' = [runs EXCEPT ![r] =
                            IF @.i < Len(@.doc_list)
                            THEN [@ EXCEPT !.i = @ + 1]
                            ELSE NoRun]
    /\ UNCHANGED <<nextId, scanOrder, lastSave, interleaved, fetchVars,
                   chunkVars>>

NextProcess ==
    \/ StoreDocument
    \/ \E r \in Runs : BeginRun(r)
    \/ \E r \in Runs : ProcessDocument(r)

SpecProcess == InitProcess /\ [][NextProcess]_vars

----------------------------------------------------------------------------
(* Properties of the sessions and of the chunk store, under SpecProcess *)

\* C22: save_chunks is all-or-nothing for one document: either every chunk
\* of the list is stored, the document is marked processed and the call
\* returns len(chunks), or (on any error before or at commit) no chunk of
\* the list is stored, the document's processed flag is unchanged and the
\* call returns 0 without raising.
C22_SaveChunksIsAllOrNothing ==
    lastChunks.called =>
        LET before == lastChunks.before
            after == lastChunks.after
            n == Len(lastChunks.chunks)
            id == lastChunks.document_id
        IN  /\ ~lastChunks.raised
            /\ IF lastChunks.fail = "none"
               THEN /\ lastChunks.result = n
                    /\ Len(after.chunks) = Len(before.chunks) + n
                    /\ SubSeq(after.chunks, 1, Len(before.chunks))
                           = before.chunks
                    /\ \A k \in 1..n :
                         LET row == after.chunks[Len(before.chunks) + k]
                         IN  /\ row.document_id = id
                             /\ row.chunk_index
                                    = lastChunks.chunks[k].chunk_index
                             /\ row.chunk_text = lastChunks.chunks[k].text
                    /\ \A k \in 1..Len(after.documents) :
                         after.documents[k].id = id
                             => after.documents[k].processed
               ELSE /\ lastChunks.result = 0
                    /\ after.chunks = before.chunks
                    /\ after.documents = before.documents

\* A save_chunks call with three chunks has failed in its commit, on a
\* database that already held a chunk of another document.
C22_Witness ==
    /\ lastChunks.called
    /\ lastChunks.fail = "commit"
    /\ Len(lastChunks.chunks) = 3
    /\ Len(lastChunks.before.chunks) = 1
    /\ lastChunks.result = 0

\* C23: every use of session_scope ends on exactly one of two paths: the
\* body finishes without exception (including an early return from inside
\* the block) and the session is committed, or the body or the commit
\* raises and the session is rolled back and the exception re-raised; on
\* both paths the session is closed exactly once, after the commit or
\* rollback.
C23_CommitOrRollbackThenClose ==
    session.use # "none" =>
        LET n == Len(session.calls)
            failed == session.body = "raises" \/ session.commit_raises
        IN  /\ n >= 2
            /\ session.calls[n] = "close"
            /\ \A k \in 1..(n - 1) : session.calls[k] # "close"
            /\ IF failed
               THEN /\ session.calls[n - 1] = "rollback"
                    /\ session.raised
                    /\ ~session.committed
                    /\ session.body = "raises"
                           => session.calls = <<"rollback", "close">>
               ELSE /\ session.calls = <<"commit", "close">>
                    /\ session.committed
                    /\ ~session.raised

\* save_document has returned from inside its block (the document was
\* stored already) and the commit that followed has raised.
C23_Witness ==
    /\ session.use = "save_document"
    /\ session.body = "returns"
    /\ session.commit_raises
    /\ session.calls = <<"commit", "rollback", "close">>
    /\ Len(documents) = 1

\* The chunk_index values stored for a document, in insertion order.
RECURSIVE StoredIndices(_, _)
StoredIndices(rows, document_id) ==
    IF rows = <<>> THEN <<>>
    ELSE IF Head(rows).document_id = document_id
    THEN <<Head(rows).chunk_index>> \o StoredIndices(Tail(rows), document_id)
    ELSE StoredIndices(Tail(rows), document_id)

\* The rows stored for a document, in insertion order.
StoredChunks(rows, document_id) ==
    SelectSeq(rows, LAMBDA row : row.document_id = document_id)

\* The rows that one chunking call on the document's content gives.
ChunksOfOneCall(doc) ==
    LET chunk_list == chunk_by_words(ScriptChunker,
                                     TextOfContent(doc.content),
                                     Some(doc.id)).chunks
    IN  [k \in 1..Len(chunk_list) |-> Chunk(doc.id, chunk_list[k])]

\* C26: after any sequence of sequential process_documents runs, in which
\* any save_chunks call may fail, every document is either unprocessed with
\* no stored chunk or processed with the chunks of exactly one chunking
\* call: its stored chunk_index values are 0..N-1, each exactly once, with
\* N >= 1; a document's processed flag is false when it is inserted and
\* never goes back from true to false.
C26_ProcessedOnceOrNotAtAll ==
    /\ [](~interleaved =>
             \A k \in 1..Len(documents) :
                LET doc == documents[k]
                    indices == StoredIndices(chunkRows, doc.id)
                IN  IF ~doc.processed
                    THEN indices = <<>>
                    ELSE /\ Len(indices) >= 1
                         /\ indices = [i \in 1..Len(indices) |-> i - 1]
                         /\ StoredChunks(chunkRows, doc.id)
                                = ChunksOfOneCall(doc))
    /\ [][/\ \A k \in 1..Len(documents) :
               /\ k <= Len(documents')
               /\ documents'[k].id = documents[k].id
               /\ documents[k].processed => documents'[k].processed
          /\ \A k \in (Len(documents) + 1)..Len(documents') :
               ~documents'[k].processed]_vars

\* Runs that never overlapped have stored the one chunk of a document and
\* have then failed, in the commit, to save the three chunks of another:
\* the first document is processed, the second is not.
C26_Witness ==
    /\ ~interleaved
    /\ lastChunks.called
    /\ lastChunks.fail = "commit"
    /\ Len(lastChunks.chunks) = 3
    /\ session.use = "save_chunks"
    /\ Len(chunkRows) = 1
    /\ \E k \in 1..Len(documents) :
         /\ documents[k].id = lastChunks.document_id
         /\ ~documents[k].processed
    /\ \E k \in 1..Len(documents) :
         /\ documents[k].id = chunkRows[1].document_id
         /\ documents[k].processed

\* C27: when two process_documents runs interleave (both read the list of
\* unprocessed documents before either saves its chunks), every document
\* still ends with each chunk_index stored at most once: no document's
\* chunks are stored twice.
C27_NoChunkIsStoredTwice ==
    \A i, j \in 1..Len(chunkRows) :
        (/\ chunkRows[i].document_id = chunkRows[j].document_id
         /\ chunkRows[i].chunk_index = chunkRows[j].chunk_index) => i = j

====
